---- MODULE Spec2Model ----
(***************************************************************************)
(* Route construction and improvement engine of tsp_3d_plot.py:            *)
(* System.distance_to / System.jumps_to, total_cost, nearest_neighbor,     *)
(* two_opt and solve.                                                      *)
(*                                                                         *)
(* A System is identified by its position in the input list `systems`      *)
(* (the class defines no __eq__, so Python compares instances by           *)
(* identity); routes are sequences of such positions, and the coordinates  *)
(* are looked up in `systems`.  Loop indices i and k keep their Python     *)
(* (0-based) values; sequences are 1-based, so path[i] of the source is    *)
(* path[i+1] here.                                                         *)
(*                                                                         *)
(* Distances are fixed-point numbers with Scale units per light year,      *)
(* each leg rounded down once (the source rounds each leg to a double).    *)
(***************************************************************************)
EXTENDS Integers, Sequences, FiniteSets

VARIABLES
    mode,           \* "solve": a run of solve; "refine": two_opt run twice; "hop": jumps_to
    systems,        \* the input list: a sequence of coordinate triples
    max_jump,       \* max_jump of solve, rng of two_opt / nearest_neighbor / total_cost
    loop_back,      \* loop_back of solve, loop of two_opt / total_cost
    final_is_last,  \* final_is_last of solve
    pc,             \* position in the program
    fixed_end,      \* solve: the fixed end (0 stands for None)
    unvisited,      \* nearest_neighbor: unvisited
    cur,            \* nearest_neighbor: cur
    path,           \* the route under construction, then the returned route
    best,           \* two_opt: best
    best_j,         \* two_opt: best_j
    best_ly,        \* two_opt: best_ly
    n,              \* two_opt: n
    improved,       \* two_opt: improved
    i,              \* two_opt: i
    k,              \* two_opt: k
    jumps,          \* returned per-leg jump counts
    tj,             \* returned total jumps
    tly,            \* returned total distance
    dists,          \* returned per-leg distances
    run,            \* refine mode: which of the two two_opt calls is running
    first,          \* refine mode: what the first two_opt call returned
    hop             \* hop mode: the operands and results of jumps_to

vars == <<mode, systems, max_jump, loop_back, final_is_last, pc, fixed_end,
          unvisited, cur, path, best, best_j, best_ly, n, improved, i, k,
          jumps, tj, tly, dists, run, first, hop>>

(***************************************************************************)
(* Bounds of the model.                                                    *)
(***************************************************************************)
MaxN == 5
MaxRange == 4
Scale == 100

\* d > 1e-6 of jumps_to, in fixed-point units (1e-6 * Scale rounds down to 0)
Eps == 0

\* The coordinates an input System is drawn from: a triangle with sides
\* 3, 6 and sqrt(13); two inputs may share coordinates.
Universe == { <<0, 0, 0>>, <<1, 2, 2>>, <<4, 4, 2>> }
Ranges == {2, 3}

None == 0

(***************************************************************************)
(* Helpers                                                                 *)
(***************************************************************************)
Abs(x) == IF x < 0 THEN -x ELSE x
Max(a, b) == IF a >= b THEN a ELSE b

RECURSIVE SumSeq(_)
SumSeq(s) == IF s = <<>> THEN 0 ELSE Head(s) + SumSeq(Tail(s))

\* s[a:b] of Python, for 0 <= a and b <= len(s)
Slice(s, a, b) == IF b <= a THEN <<>> ELSE SubSeq(s, a + 1, b)

\* s[::-1]
Reverse(s) == [m \in 1..Len(s) |-> s[Len(s) + 1 - m]]

\* math.ceil(x / y) for x >= 0, y > 0
Ceil(x, y) == IF x % y = 0 THEN x \div y ELSE (x \div y) + 1

\* math.hypot, rounded down to the fixed-point grid
Hypot(dx, dy, dz) ==
    LET m == (dx * dx + dy * dy + dz * dz) * Scale * Scale
    IN  CHOOSE r \in 0..((Abs(dx) + Abs(dy) + Abs(dz)) * Scale) :
            r * r <= m /\ (r + 1) * (r + 1) > m

HypotTab == [a \in Universe |-> [b \in Universe |->
                Hypot(a[1] - b[1], a[2] - b[2], a[3] - b[3])]]

(***************************************************************************)
(* class System                                                            *)
(***************************************************************************)
distance_to(a, b) == HypotTab[a][b]

\* jumps_to with the quotient rounded down instead of up
jumps_to_floor(a, b, max_range) ==
    LET d == distance_to(a, b)
    IN  IF d > Eps THEN Max(1, d \div (max_range * Scale)) ELSE 0

jumps_to(a, b, max_range) ==
    LET d == distance_to(a, b)
    IN  IF d > Eps THEN Max(1, Ceil(d, max_range * Scale)) ELSE 0

(***************************************************************************)
(* total_cost(path, rng, loop)                                             *)
(***************************************************************************)
Legs(p, loop) ==
    [m \in 1..(Len(p) - 1) |-> <<p[m], p[m + 1]>>]
        \o (IF loop THEN << <<p[Len(p)], p[1]>> >> ELSE <<>>)

total_cost(p, rng, loop) ==
    IF Len(p) < 2
    THEN [tj |-> 0, jumps |-> <<>>, tly |-> 0, dists |-> <<>>]
    ELSE LET legs == Legs(p, loop)
             js == [m \in DOMAIN legs |->
                      jumps_to(systems[legs[m][1]], systems[legs[m][2]], rng)]
             ds == [m \in DOMAIN legs |->
                      distance_to(systems[legs[m][1]], systems[legs[m][2]])]
         IN  [tj |-> SumSeq(js), jumps |-> js, tly |-> SumSeq(ds), dists |-> ds]

(***************************************************************************)
(* Initial states: the arguments of one call                               *)
(***************************************************************************)
Inputs == UNION { [1..m -> Universe] : m \in 1..MaxN }

NoResult == [path |-> <<>>, jumps |-> <<>>, tj |-> 0, tly |-> 0, dists |-> <<>>]
NoHop == [a |-> <<0, 0, 0>>, b |-> <<0, 0, 0>>, r1 |-> 1, r2 |-> 1, h1 |-> -1, h2 |-> -1]

Idle ==
    /\ fixed_end = None /\ unvisited = {} /\ cur = 0
    /\ best = <<>> /\ best_j = 0 /\ best_ly = 0 /\ n = 0
    /\ improved = FALSE /\ i = 0 /\ k = 0
    /\ jumps = <<>> /\ tj = 0 /\ tly = 0 /\ dists = <<>>
    /\ run = 1 /\ first = NoResult

\* solve(systems, max_jump, loop_back, final_is_last) is about to be called
Init ==
    /\ mode = "solve"
    /\ systems \in Inputs
    /\ max_jump \in Ranges
    /\ loop_back \in BOOLEAN
    /\ final_is_last \in BOOLEAN
    /\ pc = "solve"
    /\ path = <<>>
    /\ hop = NoHop
    /\ Idle

\* two_opt(path, rng, loop) is about to be called on an arbitrary route
InitRefine ==
    /\ mode = "refine"
    /\ systems \in Inputs
    /\ max_jump \in Ranges
    /\ loop_back \in BOOLEAN
    /\ final_is_last = FALSE
    /\ pc = "two_opt"
    /\ path = [m \in 1..Len(systems) |-> m]
    /\ hop = NoHop
    /\ Idle

\* a.jumps_to(b, r1) and a.jumps_to(b, r2) are about to be called
InitHop ==
    /\ mode = "hop"
    /\ systems = <<>>
    /\ max_jump = 1
    /\ loop_back = FALSE
    /\ final_is_last = FALSE
    /\ pc = "hop"
    /\ path = <<>>
    /\ \E a \in Universe, b \in Universe, r1 \in 1..MaxRange, r2 \in 1..MaxRange :
          hop = [a |-> a, b |-> b, r1 |-> r1, r2 |-> r2, h1 |-> -1, h2 |-> -1]
    /\ Idle

(***************************************************************************)
(* jumps_to, called twice on the same pair                                 *)
(***************************************************************************)
HopCall ==
    /\ pc = "hop"
    /\ hop' = [hop EXCEPT !.h1 = jumps_to(hop.a, hop.b, hop.r1),
                          !.h2 = jumps_to(hop.a, hop.b, hop.r2)]
    /\ pc' = "hop_done"
    /\ UNCHANGED <<mode, systems, max_jump, loop_back, final_is_last, fixed_end,
                   unvisited, cur, path, best, best_j, best_ly, n, improved, i, k,
                   jumps, tj, tly, dists, run, first>>

(***************************************************************************)
(* solve, up to the call of nearest_neighbor                               *)
(***************************************************************************)
\* systems[-1] if not loop_back and final_is_last else None
FixedEnd(sys, loop, fil) == IF ~loop /\ fil THEN Len(sys) ELSE None

\* [s for s in systems if s != fixed_end]
Pool(sys, fe) == {s \in 1..Len(sys) : s # fe}

SolveStart ==
    /\ pc = "solve"
    /\ IF Len(systems) < 2
       THEN /\ path' = [m \in 1..Len(systems) |-> m]
            /\ pc' = "done"
            /\ UNCHANGED <<fixed_end, unvisited, cur>>
       ELSE LET start == 1
                fe == FixedEnd(systems, loop_back, final_is_last)
            IN  /\ fixed_end' = fe
                /\ unvisited' = Pool(systems, fe) \ {start}
                /\ path' = <<start>>
                /\ cur' = start
                /\ pc' = "nn"
    /\ UNCHANGED <<mode, systems, max_jump, loop_back, final_is_last,
                   best, best_j, best_ly, n, improved, i, k,
                   jumps, tj, tly, dists, run, first, hop>>

(***************************************************************************)
(* nearest_neighbor(systems, start, fixed_end, rng)                        *)
(***************************************************************************)
\* nearest_neighbor taking any unvisited element instead of a minimal one
NNChoicesAny(unv, c, rng) == unv

\* min(unvisited, key=lambda s: cur.jumps_to(s, rng)): the first minimal
\* element in the set's iteration order, which is any minimal element
NNChoices(unv, c, rng) ==
    {s \in unv : \A t \in unv :
        jumps_to(systems[c], systems[s], rng) <= jumps_to(systems[c], systems[t], rng)}

NNStep ==
    /\ pc = "nn"
    /\ unvisited # {}
    /\ \E nxt \in NNChoices(unvisited, cur, max_jump) :
          /\ path' = Append(path, nxt)
          /\ unvisited' = unvisited \ {nxt}
          /\ cur' = nxt
    /\ UNCHANGED <<mode, systems, max_jump, loop_back, final_is_last, pc, fixed_end,
                   best, best_j, best_ly, n, improved, i, k,
                   jumps, tj, tly, dists, run, first, hop>>

\* list.remove(x): drops the first occurrence
RECURSIVE Remove(_, _)
Remove(p, x) ==
    IF p = <<>> THEN <<>>
    ELSE IF Head(p) = x THEN Tail(p) ELSE <<Head(p)>> \o Remove(Tail(p), x)

InSeq(x, p) == \E m \in DOMAIN p : p[m] = x

\* the post-pass of nearest_neighbor
PlaceFixedEnd(p, fe) ==
    IF fe # None /\ p[Len(p)] # fe
    THEN Append(IF InSeq(fe, p) THEN Remove(p, fe) ELSE p, fe)
    ELSE p

NNReturn ==
    /\ pc = "nn"
    /\ unvisited = {}
    /\ path' = PlaceFixedEnd(path, fixed_end)
    /\ cur' = 0
    /\ pc' = "two_opt"
    /\ UNCHANGED <<mode, systems, max_jump, loop_back, final_is_last, fixed_end,
                   unvisited, best, best_j, best_ly, n, improved, i, k,
                   jumps, tj, tly, dists, run, first, hop>>

(***************************************************************************)
(* two_opt(path, rng, loop)                                                *)
(***************************************************************************)
\* the reversal with best[i-1:k] in place of best[i:k+1]: element i-1 comes
\* twice and element k is lost
ReversedShifted(b, ii, kk) ==
    Slice(b, 0, ii) \o Reverse(Slice(b, ii - 1, kk)) \o Slice(b, kk + 1, Len(b))

\* best[:i] + best[i:k+1][::-1] + best[k+1:]
Reversed(b, ii, kk) ==
    Slice(b, 0, ii) \o Reverse(Slice(b, ii, kk + 1)) \o Slice(b, kk + 1, Len(b))

\* loop and (i == 1 or k == n-1)
Skip(loop, ii, kk, nn) == loop /\ (ii = 1 \/ kk = nn - 1)

\* the acceptance test with <= in place of <: ties are accepted
BetterOrEqual(nj, nly, bj, bly) == nj < bj \/ (nj = bj /\ nly <= bly)

\* nj < best_j or (nj == best_j and nly < best_ly)
Better(nj, nly, bj, bly) == nj < bj \/ (nj = bj /\ nly < bly)

TwoOptEnter ==
    /\ pc = "two_opt"
    /\ best' = path
    /\ best_j' = total_cost(path, max_jump, loop_back).tj
    /\ best_ly' = total_cost(path, max_jump, loop_back).tly
    /\ n' = Len(path)
    /\ improved' = TRUE
    /\ pc' = "while"
    /\ UNCHANGED <<mode, systems, max_jump, loop_back, final_is_last, fixed_end,
                   unvisited, cur, path, i, k, jumps, tj, tly, dists, run, first, hop>>

\* `if improved:` in place of `while improved:`: one pass only
WhileTestOnce ==
    /\ pc = "while"
    /\ IF improved /\ i = 0
       THEN /\ improved' = FALSE
            /\ i' = 1
            /\ pc' = "for_i"
       ELSE /\ pc' = "return"
            /\ i' = 0
            /\ UNCHANGED improved
    /\ k' = 0
    /\ UNCHANGED <<mode, systems, max_jump, loop_back, final_is_last, fixed_end,
                   unvisited, cur, path, best, best_j, best_ly, n,
                   jumps, tj, tly, dists, run, first, hop>>

\* while improved: improved = False; for i in range(1, n-2): ...
WhileTest ==
    /\ pc = "while"
    /\ IF improved
       THEN /\ improved' = FALSE
            /\ i' = 1
            /\ pc' = "for_i"
       ELSE /\ pc' = "return"
            /\ i' = 0
            /\ UNCHANGED improved
    /\ k' = 0
    /\ UNCHANGED <<mode, systems, max_jump, loop_back, final_is_last, fixed_end,
                   unvisited, cur, path, best, best_j, best_ly, n,
                   jumps, tj, tly, dists, run, first, hop>>

\* range(1, n-3) in place of range(1, n-2): the last i is never tried
ForIShort ==
    /\ pc = "for_i"
    /\ IF i < n - 3
       THEN /\ k' = i + 1
            /\ pc' = "for_k"
       ELSE /\ k' = 0
            /\ pc' = "while"
    /\ UNCHANGED <<mode, systems, max_jump, loop_back, final_is_last, fixed_end,
                   unvisited, cur, path, best, best_j, best_ly, n, improved, i,
                   jumps, tj, tly, dists, run, first, hop>>

\* for i in range(1, n-2): for k in range(i+1, n): ...
ForI ==
    /\ pc = "for_i"
    /\ IF i < n - 2
       THEN /\ k' = i + 1
            /\ pc' = "for_k"
       ELSE /\ k' = 0
            /\ pc' = "while"
    /\ UNCHANGED <<mode, systems, max_jump, loop_back, final_is_last, fixed_end,
                   unvisited, cur, path, best, best_j, best_ly, n, improved, i,
                   jumps, tj, tly, dists, run, first, hop>>

\* the inner loop with a `break` after an accepted reversal
ForKBreak ==
    /\ pc = "for_k"
    /\ IF k < n
       THEN IF Skip(loop_back, i, k, n)
            THEN /\ k' = k + 1
                 /\ pc' = "for_k"
                 /\ UNCHANGED <<best, best_j, best_ly, improved>>
            ELSE LET new == Reversed(best, i, k)
                     c == total_cost(new, max_jump, loop_back)
                 IN  IF Better(c.tj, c.tly, best_j, best_ly)
                     THEN /\ best' = new
                          /\ best_j' = c.tj
                          /\ best_ly' = c.tly
                          /\ improved' = TRUE
                          /\ pc' = "after_k"
                          /\ UNCHANGED k
                     ELSE /\ k' = k + 1
                          /\ pc' = "for_k"
                          /\ UNCHANGED <<best, best_j, best_ly, improved>>
       ELSE /\ pc' = "after_k"
            /\ UNCHANGED <<k, best, best_j, best_ly, improved>>
    /\ UNCHANGED <<mode, systems, max_jump, loop_back, final_is_last, fixed_end,
                   unvisited, cur, path, n, i, jumps, tj, tly, dists, run, first, hop>>

\* one iteration of the inner loop, or its end
ForK ==
    /\ pc = "for_k"
    /\ IF k < n
       THEN /\ k' = k + 1
            /\ pc' = "for_k"
            /\ IF Skip(loop_back, i, k, n)
               THEN UNCHANGED <<best, best_j, best_ly, improved>>
               ELSE LET new == Reversed(best, i, k)
                        c == total_cost(new, max_jump, loop_back)
                    IN  IF Better(c.tj, c.tly, best_j, best_ly)
                        THEN /\ best' = new
                             /\ best_j' = c.tj
                             /\ best_ly' = c.tly
                             /\ improved' = TRUE
                        ELSE UNCHANGED <<best, best_j, best_ly, improved>>
       ELSE /\ pc' = "after_k"
            /\ UNCHANGED <<k, best, best_j, best_ly, improved>>
    /\ UNCHANGED <<mode, systems, max_jump, loop_back, final_is_last, fixed_end,
                   unvisited, cur, path, n, i, jumps, tj, tly, dists, run, first, hop>>

\* if improved: break
AfterK ==
    /\ pc = "after_k"
    /\ IF improved
       THEN /\ pc' = "while"
            /\ UNCHANGED i
       ELSE /\ pc' = "for_i"
            /\ i' = i + 1
    /\ k' = 0
    /\ UNCHANGED <<mode, systems, max_jump, loop_back, final_is_last, fixed_end,
                   unvisited, cur, path, best, best_j, best_ly, n, improved,
                   jumps, tj, tly, dists, run, first, hop>>

\* j, jumps, ly, dists = total_cost(best, rng, loop); return best, jumps, j, ly, dists
TwoOptReturn ==
    /\ pc = "return"
    /\ LET c == total_cost(best, max_jump, loop_back)
       IN  /\ path' = best
           /\ jumps' = c.jumps
           /\ tj' = c.tj
           /\ tly' = c.tly
           /\ dists' = c.dists
    /\ best' = <<>> /\ best_j' = 0 /\ best_ly' = 0 /\ n' = 0
    /\ pc' = IF mode = "solve" THEN "close" ELSE "returned"
    /\ UNCHANGED <<mode, systems, max_jump, loop_back, final_is_last, fixed_end,
                   unvisited, cur, improved, i, k, run, first, hop>>

(***************************************************************************)
(* solve, after the call of two_opt                                        *)
(***************************************************************************)
\* the closing leg also added to the totals, which already hold it
SolveCloseFold ==
    /\ pc = "close"
    /\ IF loop_back /\ path[1] # path[Len(path)]
       THEN LET closed == Append(path, path[1])
                a == systems[closed[Len(closed) - 1]]
                b == systems[closed[1]]
            IN  /\ path' = closed
                /\ jumps' = Append(jumps, jumps_to(a, b, max_jump))
                /\ dists' = Append(dists, distance_to(a, b))
                /\ tj' = tj + jumps_to(a, b, max_jump)
                /\ tly' = tly + distance_to(a, b)
       ELSE UNCHANGED <<path, jumps, dists, tj, tly>>
    /\ pc' = "done"
    /\ UNCHANGED <<mode, systems, max_jump, loop_back, final_is_last, fixed_end,
                   unvisited, cur, best, best_j, best_ly, n, improved, i, k,
                   run, first, hop>>

\* if loop_back and path[0] != path[-1]: append the start and the closing leg
SolveClose ==
    /\ pc = "close"
    /\ IF loop_back /\ path[1] # path[Len(path)]
       THEN LET closed == Append(path, path[1])
                a == systems[closed[Len(closed) - 1]]
                b == systems[closed[1]]
            IN  /\ path' = closed
                /\ jumps' = Append(jumps, jumps_to(a, b, max_jump))
                /\ dists' = Append(dists, distance_to(a, b))
       ELSE UNCHANGED <<path, jumps, dists>>
    /\ pc' = "done"
    /\ UNCHANGED <<mode, systems, max_jump, loop_back, final_is_last, fixed_end,
                   unvisited, cur, best, best_j, best_ly, n, improved, i, k,
                   tj, tly, run, first, hop>>

(***************************************************************************)
(* Refinement applied to its own result                                    *)
(***************************************************************************)
Result == [path |-> path, jumps |-> jumps, tj |-> tj, tly |-> tly, dists |-> dists]

Rerun ==
    /\ pc = "returned"
    /\ run = 1
    /\ first' = Result
    /\ run' = 2
    /\ pc' = "two_opt"
    /\ jumps' = <<>> /\ tj' = 0 /\ tly' = 0 /\ dists' = <<>>
    /\ UNCHANGED <<mode, systems, max_jump, loop_back, final_is_last, fixed_end,
                   unvisited, cur, path, best, best_j, best_ly, n, improved, i, k, hop>>

(***************************************************************************)
(* Specifications                                                          *)
(***************************************************************************)
TwoOptNext == TwoOptEnter \/ WhileTest \/ ForI \/ ForK \/ AfterK \/ TwoOptReturn

Next == SolveStart \/ NNStep \/ NNReturn \/ TwoOptNext \/ SolveClose

NextRefine == TwoOptNext \/ Rerun

NextHop == HopCall

Spec == Init /\ [][Next]_vars

SpecRefine == InitRefine /\ [][NextRefine]_vars

\* a step of two_opt is enabled exactly while a call of it has not returned
TwoOptRunning == pc # "returned"

\* two_opt runs on one thread with nothing to wait for, so every step it can
\* take is eventually taken: weak fairness of its steps and of the second
\* call.  WF_vars(TwoOptNext) is written with ENABLED <<TwoOptNext>>_vars
\* spelled out as TwoOptRunning.
FairRefine ==
    /\ InitRefine
    /\ [][NextRefine]_vars
    /\ WF_vars(Rerun)
    /\ ([]<>(~TwoOptRunning) \/ []<><<TwoOptNext>>_vars)

SpecHop == InitHop /\ [][NextHop]_vars

(***************************************************************************)
(* Properties                                                              *)
(***************************************************************************)
Identity(m) == [x \in 1..m |-> x]

\* the jump count and the length of leg m of route p
LegJumps(p, m) == jumps_to(systems[p[m]], systems[p[m + 1]], max_jump)
LegDist(p, m) == distance_to(systems[p[m]], systems[p[m + 1]])

SolveDone == mode = "solve" /\ pc = "done" /\ Len(systems) >= 2

\* C1: with loop_back false and final_is_last true, the route solve returns
\* for at least 2 systems ends with the last system of the input.
C1_EndsWithLast ==
    (SolveDone /\ ~loop_back /\ final_is_last) => path[Len(path)] = Len(systems)

\* C2: with loop_back true, the route solve returns starts and ends with the
\* first input system, and the returned totals are the sums of the jump
\* counts and of the distances over the consecutive pairs of that closed
\* route: the closing leg is counted exactly once.
C2_LoopTotals ==
    (SolveDone /\ loop_back) =>
        /\ path[1] = 1
        /\ path[Len(path)] = 1
        /\ tj = SumSeq([m \in 1..(Len(path) - 1) |-> LegJumps(path, m)])
        /\ tly = SumSeq([m \in 1..(Len(path) - 1) |-> LegDist(path, m)])

\* a loop run has returned whose closing leg costs at least one jump
C2_Witness ==
    /\ SolveDone /\ loop_back
    /\ Len(systems) >= 3
    /\ LegJumps(path, Len(path) - 1) > 0

\* C5: the route solve returns has the first input system first and, apart
\* from the closing copy of the start in loop mode, holds every input system
\* exactly once.
Core == IF loop_back THEN SubSeq(path, 1, Len(path) - 1) ELSE path

C5_Permutation ==
    SolveDone =>
        /\ path[1] = 1
        /\ Len(Core) = Len(systems)
        /\ {Core[m] : m \in DOMAIN Core} = 1..Len(systems)

\* solve has returned a route of at least 4 systems in another order than
\* the input's
C5_Witness ==
    /\ SolveDone
    /\ Len(systems) >= 4
    /\ Core # Identity(Len(systems))

\* C8: in the greedy part built by nearest_neighbor, every chosen element
\* needs no more jumps from its predecessor than any element chosen later.
C8_GreedyMinJumps ==
    (mode = "solve" /\ pc = "nn") =>
        \A p \in 2..Len(path) : \A q \in (p + 1)..Len(path) :
            jumps_to(systems[path[p - 1]], systems[path[p]], max_jump)
                <= jumps_to(systems[path[p - 1]], systems[path[q]], max_jump)

\* the greedy construction is complete, and some choice was strictly cheaper
\* in jumps than a later element while another was farther away than a
\* later element with the same jump count
C8_Witness ==
    /\ mode = "solve" /\ pc = "nn" /\ unvisited = {}
    /\ \E p \in 2..Len(path) : \E q \in (p + 1)..Len(path) :
          jumps_to(systems[path[p - 1]], systems[path[p]], max_jump)
              < jumps_to(systems[path[p - 1]], systems[path[q]], max_jump)
    /\ \E p \in 2..Len(path) : \E q \in (p + 1)..Len(path) :
          distance_to(systems[path[p - 1]], systems[path[p]])
              > distance_to(systems[path[p - 1]], systems[path[q]])

\* C10: the per-leg lists solve returns add up to the totals it returns.
C10_LegsSumToTotals ==
    SolveDone => (SumSeq(jumps) = tj /\ SumSeq(dists) = tly)

(***************************************************************************)
(* Properties of two_opt                                                   *)
(***************************************************************************)
Returned == mode = "refine" /\ pc = "returned"

\* C3: when two_opt returns route R, no reversal of R[i..k] with
\* 1 <= i < n-2 and i < k < n (and, with loop, i # 1 and k # n-1) has fewer
\* total jumps, or as many jumps and a smaller total distance.
C3_LocallyOptimal ==
    Returned =>
        LET len == Len(path)
            c == total_cost(path, max_jump, loop_back)
        IN  \A ii \in 1..(len - 3) : \A kk \in (ii + 1)..(len - 1) :
                (~(loop_back /\ (ii = 1 \/ kk = len - 1))) =>
                    LET d == total_cost(Reversed(path, ii, kk), max_jump, loop_back)
                    IN  ~(d.tj < c.tj \/ (d.tj = c.tj /\ d.tly < c.tly))

\* two_opt has returned a closed-loop route it changed
C3_Witness ==
    /\ Returned /\ run = 1
    /\ loop_back
    /\ path # Identity(Len(systems))

\* C4: two_opt applied to the route it returned returns the same route and
\* the same four cost values.
C4_Idempotent ==
    (Returned /\ run = 2) => Result = first

\* the second call has returned, and the first call had changed its input
C4_Witness ==
    /\ Returned /\ run = 2
    /\ first.path # Identity(Len(systems))
    /\ first.tj > 0

\* C7 as stated: once a reversal has been accepted in a pass, no further
\* candidate is evaluated in that pass.
C7_AbandonsBothLoops ==
    ~(mode = "refine" /\ pc = "for_k" /\ improved /\ k < n /\ ~Skip(loop_back, i, k, n))

\* C7, amended: the step that accepts a reversal at (i,k) goes on to k+1 of
\* the same i; with a reversal accepted, the remaining k of that i are still
\* evaluated against the improved route and accepted when better; the loop
\* over i is abandoned when the inner loop has finished, and the next pass
\* starts at i = 1.
C7_InnerLoopContinues ==
    [][ /\ (pc = "for_k" /\ best' # best) =>
              (pc' = "for_k" /\ i' = i /\ k' = k + 1 /\ improved')
        /\ (pc = "for_k" /\ improved /\ k < n /\ ~Skip(loop_back, i, k, n)) =>
              LET new == Reversed(best, i, k)
                  c == total_cost(new, max_jump, loop_back)
              IN  /\ pc' = "for_k" /\ i' = i /\ k' = k + 1
                  /\ Better(c.tj, c.tly, best_j, best_ly) => best' = new
        /\ (pc = "after_k" /\ improved) => (pc' = "while" /\ best' = best)
        /\ (pc = "while" /\ improved) => (pc' = "for_i" /\ i' = 1 /\ best' = best)
      ]_vars

\* a second reversal is about to be accepted in the pass that accepted one
C7_Witness ==
    /\ mode = "refine" /\ pc = "for_k" /\ improved /\ k < n - 1
    /\ ~Skip(loop_back, i, k, n)
    /\ LET c == total_cost(Reversed(best, i, k), max_jump, loop_back)
       IN  Better(c.tj, c.tly, best_j, best_ly)

\* C9: two_opt terminates, and every accepted reversal strictly decreases
\* the pair (total jumps, total distance) of the best route.
C9_Terminates ==
    /\ [][ (pc = "for_k" /\ best' # best) =>
              (best_j' < best_j \/ (best_j' = best_j /\ best_ly' < best_ly)) ]_vars
    /\ <>(pc = "returned")

\* two_opt has returned an open route that is not the one it was given: it
\* went through at least two passes
C9_Witness ==
    /\ Returned /\ run = 1
    /\ ~loop_back
    /\ path # Identity(Len(systems))

(***************************************************************************)
(* Properties of jumps_to                                                  *)
(***************************************************************************)
\* C6: jumps_to is 0 when the distance is at most the epsilon; otherwise it
\* is at least 1 and is the least number of jumps of max_range that cover
\* the distance; and it does not grow when max_range grows.
C6_HopCount ==
    (mode = "hop" /\ pc = "hop_done") =>
        LET d == distance_to(hop.a, hop.b)
        IN  /\ d <= Eps => hop.h1 = 0
            /\ d > Eps =>
                  /\ hop.h1 >= 1
                  /\ hop.h1 * hop.r1 * Scale >= d
                  /\ (hop.h1 - 1) * hop.r1 * Scale < d
            /\ hop.r1 <= hop.r2 => hop.h1 >= hop.h2

\* a pair more than one jump apart at the larger range, and farther at the
\* smaller one
C6_Witness ==
    /\ mode = "hop" /\ pc = "hop_done"
    /\ hop.r1 < hop.r2
    /\ hop.h2 > 1
    /\ hop.h1 > hop.h2

====
